---- MODULE Spec2Model ----
(***************************************************************************)
(* Model of the Base32Hex codec of src/lib/index.mjs.                      *)
(*                                                                         *)
(* A JavaScript string is a sequence of one-character strings, a           *)
(* Uint8Array a sequence of integers in 0..255 (index i of the code is     *)
(* position i+1 here).  An optional argument (start, end) is Undefined     *)
(* (the empty sequence) or the one-element sequence <<n>>.  A call either  *)
(* returns a value or throws; both outcomes are records.                   *)
(***************************************************************************)
EXTENDS Integers, Sequences, FiniteSets, TLC

VARIABLES codec,   \* the Base32Hex instance the caller holds
          pc,      \* "idle": between calls, "done": a call has completed
          op,      \* the operation of the last call
          input,   \* its first argument
          start,   \* its start argument (Undefined or <<n>>)
          end,     \* its end argument (Undefined or <<n>>)
          origin,  \* <<x>> when this call's input is the result of a call on x,
                   \* else <<>>
          result   \* its outcome: Return(v) or a Throw record

vars == <<codec, pc, op, input, start, end, origin, result>>

----------------------------------------------------------------------------
(* Program constants, lines 43-50 *)

BASE == 32

ALPHABET ==
  << "0", "1", "2", "3", "4", "5", "6", "7", "8", "9", "A", "B", "C", "D", "E", "F",
     "G", "H", "I", "J", "K", "L", "M", "N", "O", "P", "Q", "R", "S", "T", "U", "V" >>

BITS_PER_CHAR == 5

PADDING_CHAR == "="

NEGATIVE_CHAR == "-"

----------------------------------------------------------------------------
(* The host runtime: values, character codes, 32-bit integer operators,    *)
(* typed arrays.                                                           *)

Undefined == <<>>

Return(v) == [kind |-> "return", value |-> v]

Throw(error, message, char, index) ==
  [kind |-> "throw", error |-> error, message |-> message, char |-> char, index |-> index]

MathMax(a, b) == IF a >= b THEN a ELSE b

MathMin(a, b) == IF a <= b THEN a ELSE b

\* Characters outside the default alphabet that the inputs of the model use.
OtherChars == { "=", "-", "a", "W" }

OtherCharCode == [ c \in OtherChars |->
  CASE c = "=" -> 61 [] c = "-" -> 45 [] c = "a" -> 97 [] c = "W" -> 87 ]

AlphabetChars == { ALPHABET[i] : i \in 1..BASE }

\* Position (0-based) of a default-alphabet character in ALPHABET.
DefaultDigit == [ c \in AlphabetChars |-> (CHOOSE i \in 1..BASE : ALPHABET[i] = c) - 1 ]

\* StringPrototypeCharCodeAt(char): "0".."9" are 48..57, "A".."V" are 65..86.
StringPrototypeCharCodeAt(char) ==
  IF char \in AlphabetChars
    THEN (IF DefaultDigit[char] < 10 THEN 48 + DefaultDigit[char] ELSE 55 + DefaultDigit[char])
    ELSE OtherCharCode[char]

RECURSIVE Pow2(_)
Pow2(n) == IF n = 0 THEN 1 ELSE 2 * Pow2(n - 1)

\* a >> n and a << n on non-negative 32-bit integers (no operand of the codec
\* reaches bit 31).
ShiftRight(a, n) == a \div Pow2(n)

ShiftLeft(a, n) == a * Pow2(n)

RECURSIVE BitAnd(_, _)
BitAnd(a, b) ==
  IF a = 0 \/ b = 0 THEN 0
  ELSE (IF a % 2 = 1 /\ b % 2 = 1 THEN 1 ELSE 0) + 2 * BitAnd(a \div 2, b \div 2)

RECURSIVE BitOr(_, _)
BitOr(a, b) ==
  IF a = 0 THEN b
  ELSE IF b = 0 THEN a
  ELSE (IF a % 2 = 1 \/ b % 2 = 1 THEN 1 ELSE 0) + 2 * BitOr(a \div 2, b \div 2)

\* new Uint8Array(length): zero-filled; a fractional length is truncated by
\* the caller with \div (ToIndex).
NewUint8Array(length) == [ i \in 1..length |-> 0 ]

\* result[index] = value on a Uint8Array: the value is stored modulo 256, and
\* a store at an index outside the array is ignored.
Uint8Store(array, index, value) ==
  IF index >= 0 /\ index < Len(array)
    THEN [array EXCEPT ![index + 1] = value % 256]
    ELSE array

\* Mutant of StartIndexOf: a negative start is taken for 0.
StartIndexOf_NegativeIsZero(startArg, length) ==
  IF startArg = Undefined THEN 0
  ELSE IF startArg[1] < 0 THEN 0
  ELSE MathMin(startArg[1], length)

\* startIndex / endIndex of lines 227-236 (the same text in all four codec
\* methods): TypesToIntegerOrInfinity is the identity on integers.
StartIndexOf(startArg, length) ==
  IF startArg = Undefined THEN 0
  ELSE IF startArg[1] < 0 THEN MathMax(0, length + startArg[1])
  ELSE MathMin(startArg[1], length)

EndIndexOf(endArg, length) ==
  IF endArg = Undefined THEN length
  ELSE IF endArg[1] < 0 THEN MathMax(0, length + endArg[1])
  ELSE MathMin(endArg[1], length)

----------------------------------------------------------------------------
(* Alphabet Manager, lines 52-109 and the constructor, lines 136-143 *)

\* The three lookup tables.  A table of the code that answers undefined for
\* a key is a function whose domain does not hold the key.  The loop assigns
\* in index order, so a repeated key keeps its last index.
createAlphabetLookups(alphabet) ==
  LET keys == { alphabet[i] : i \in 1..BASE }
      last(c) == CHOOSE i \in 1..BASE :
                   /\ alphabet[i] = c
                   /\ \A j \in 1..BASE : alphabet[j] = c => j <= i
  IN [ lookup        |-> [ c \in keys |-> last(c) - 1 ],
       baseMap       |-> [ i \in 1..BASE |-> StringPrototypeCharCodeAt(alphabet[i]) ],
       baseMapLookup |-> [ k \in { StringPrototypeCharCodeAt(c) : c \in keys } |->
                             last(CHOOSE c \in keys : StringPrototypeCharCodeAt(c) = k) - 1 ] ]

\* The fields the constructor sets on a new instance.
NewInstance(alphabet) ==
  LET lookups == createAlphabetLookups(alphabet)
  IN [ alphabet       |-> alphabet,
       alphabetLookup |-> lookups.lookup,
       baseMap        |-> lookups.baseMap,
       baseMapLookup  |-> lookups.baseMapLookup ]

\* const base32Hex = new Base32Hex(): toAlphabet(undefined) is ALPHABET.
base32Hex == NewInstance(ALPHABET)

RECURSIVE isAlphabetLoop(_, _, _)
isAlphabetLoop(value, i, uniqueChars) ==
  IF i >= BASE THEN TRUE
  ELSE LET char == value[i + 1]
       IN IF char \notin DOMAIN base32Hex.alphabetLookup \/ char \in uniqueChars
            THEN FALSE
            ELSE isAlphabetLoop(value, i + 1, uniqueChars \cup {char})

isAlphabet(value) ==
  IF Len(value) # BASE THEN FALSE
  ELSE isAlphabetLoop(value, 0, {})

\* Mutant of toAlphabetLoop: a repeated character is not looked for.
RECURSIVE toAlphabetLoop_NoDuplicateCheck(_, _, _)
toAlphabetLoop_NoDuplicateCheck(value, i, uniqueChars) ==
  IF i >= BASE THEN Return(value)
  ELSE LET char == value[i + 1]
       IN IF char \notin DOMAIN base32Hex.alphabetLookup
            THEN Throw("SyntaxError", "Invalid character for the Base32Hex alphabet", char, i)
            ELSE toAlphabetLoop_NoDuplicateCheck(value, i + 1, uniqueChars \cup {char})

RECURSIVE toAlphabetLoop(_, _, _)
toAlphabetLoop(value, i, uniqueChars) ==
  IF i >= BASE THEN Return(value)
  ELSE LET char == value[i + 1]
       IN IF char \notin DOMAIN base32Hex.alphabetLookup
            THEN Throw("SyntaxError", "Invalid character for the Base32Hex alphabet", char, i)
          ELSE IF char \in uniqueChars
            THEN Throw("SyntaxError", "The character is already in the alphabet", char, i)
          ELSE toAlphabetLoop(value, i + 1, uniqueChars \cup {char})

toAlphabet(value) ==
  IF Len(value) # BASE
    THEN Throw("RangeError", "The length of the alphabet must be equal to 32", "", -1)
    ELSE toAlphabetLoop(value, 0, {})

\* new Base32Hex(alphabet): the outcome is the new instance, or what
\* toAlphabet throws.
Construct(alphabet) ==
  LET checked == toAlphabet(alphabet)
  IN IF checked.kind = "throw" THEN checked ELSE Return(NewInstance(checked.value))

----------------------------------------------------------------------------
(* Integer Codec, lines 149-222.  A Number that holds an integer and a     *)
(* BigInt are both integers here; every operation of the two codecs is     *)
(* exact on the safe integers.                                             *)

\* The runtime's bounds are 2^53 - 1 and its negation.  The integers of the
\* model checker end at 2^31 - 1, so these are the bounds of the model's
\* Numbers, and every Number of the model is a safe integer.
NumberMAX_SAFE_INTEGER == 2147483647

NumberMIN_SAFE_INTEGER == -2147483647

\* The loop of lines 165-168: number % BASE, MathFloor(number / BASE).
RECURSIVE encodeIntLoop(_, _, _)
encodeIntLoop(alphabet, number, res) ==
  IF number = 0 THEN res
  ELSE encodeIntLoop(alphabet, number \div BASE, << alphabet[(number % BASE) + 1] >> \o res)

\* encodeInt(value), lines 149-170, on an integer Number
encodeInt(this, value) ==
  IF value < NumberMIN_SAFE_INTEGER
    THEN Throw("RangeError",
               "The value must be greater than or equal to the minimum safe integer", "", -1)
  ELSE IF value > NumberMAX_SAFE_INTEGER
    THEN Throw("RangeError",
               "The value must be less than or equal to the maximum safe integer", "", -1)
  ELSE IF value = 0 THEN Return(<< this.alphabet[1] >>)
  ELSE LET isNegative == value < 0
           number     == IF isNegative THEN -value ELSE value
           res        == encodeIntLoop(this.alphabet, number, <<>>)
       IN Return(IF isNegative THEN << NEGATIVE_CHAR >> \o res ELSE res)

\* The loop of lines 178-185 (and 213-220): result * BASE + index.
RECURSIVE decodeIntLoop(_, _, _, _)
decodeIntLoop(alphabetLookup, string, i, res) ==
  IF i >= Len(string) THEN Return(res)
  ELSE LET char == string[i + 1]
       IN IF char \notin DOMAIN alphabetLookup
            THEN Throw("SyntaxError", "Invalid character for Base32Hex encoding", char, i)
            ELSE decodeIntLoop(alphabetLookup, string, i + 1, res * BASE + alphabetLookup[char])

\* Mutant of decodeInt: the sign is skipped and not applied.
decodeInt_SignDropped(this, string) ==
  LET length     == Len(string)
      isNegative == length > 0 /\ string[1] = NEGATIVE_CHAR
  IN decodeIntLoop(this.alphabetLookup, string, IF isNegative /\ length > 1 THEN 1 ELSE 0, 0)

\* decodeInt(string), lines 172-187, on a string
decodeInt(this, string) ==
  LET length     == Len(string)
      isNegative == length > 0 /\ string[1] = NEGATIVE_CHAR
      loop       == decodeIntLoop(this.alphabetLookup, string,
                                  IF isNegative /\ length > 1 THEN 1 ELSE 0, 0)
  IN IF loop.kind = "throw" THEN loop
     ELSE Return(IF isNegative /\ loop.value > 0 THEN -loop.value ELSE loop.value)

\* The loop of lines 200-203: bigInt % 32n, bigInt /= 32n.
RECURSIVE encodeBigIntLoop(_, _, _)
encodeBigIntLoop(alphabet, bigInt, res) ==
  IF bigInt = 0 THEN res
  ELSE encodeBigIntLoop(alphabet, bigInt \div 32, << alphabet[(bigInt % 32) + 1] >> \o res)

\* encodeBigInt(value), lines 189-205, on a BigInt
encodeBigInt(this, value) ==
  IF value = 0 THEN Return(<< this.alphabet[1] >>)
  ELSE LET isNegative == value < 0
           bigInt     == IF isNegative THEN -value ELSE value
           res        == encodeBigIntLoop(this.alphabet, bigInt, <<>>)
       IN Return(IF isNegative THEN << NEGATIVE_CHAR >> \o res ELSE res)

\* decodeBigInt(string), lines 207-222, on a string
decodeBigInt(this, string) ==
  LET length     == Len(string)
      isNegative == length > 0 /\ string[1] = NEGATIVE_CHAR
      loop       == decodeIntLoop(this.alphabetLookup, string,
                                  IF isNegative /\ length > 1 THEN 1 ELSE 0, 0)
  IN IF loop.kind = "throw" THEN loop
     ELSE Return(IF isNegative THEN -loop.value ELSE loop.value)

----------------------------------------------------------------------------
(* Bit-Packing Codec, lines 224-314 and 324-423.  `this` is the instance.  *)

\* The loop of lines 240-252: the string built so far, shift and carry.
RECURSIVE encodeToStringLoop(_, _, _, _, _, _, _)
encodeToStringLoop(alphabet, bytes, i, endIndex, shift, carry, res) ==
  IF i >= endIndex THEN [result |-> res, shift |-> shift, carry |-> carry]
  ELSE LET byte   == bytes[i + 1]
           number == BitOr(carry, ShiftRight(byte, shift))
           res1   == Append(res, alphabet[BitAnd(number, 31) + 1])
           second == shift > BITS_PER_CHAR
           shift1 == IF second THEN shift - BITS_PER_CHAR ELSE shift
           res2   == IF second
                       THEN Append(res1, alphabet[BitAnd(ShiftRight(byte, shift1), 31) + 1])
                       ELSE res1
           shift2 == BITS_PER_CHAR - shift1
       IN encodeToStringLoop(alphabet, bytes, i + 1, endIndex,
                             8 - shift2, ShiftLeft(byte, shift2), res2)

\* StringPrototypeRepeat(PADDING_CHAR, count)
StringPrototypeRepeat(char, count) == [ i \in 1..count |-> char ]

\* Mutant of encodeToStringImpl: 8 - extraBytes padding characters are
\* appended also when extraBytes is 0.
encodeToStringImpl_AlwaysPads(this, bytes, startArg, endArg) ==
  LET alphabet   == this.alphabet
      length     == Len(bytes)
      startIndex == StartIndexOf(startArg, length)
      endIndex   == EndIndexOf(endArg, length)
      loop       == encodeToStringLoop(alphabet, bytes, startIndex, endIndex, 3, 0, <<>>)
      res        == IF loop.shift # 3
                      THEN Append(loop.result, alphabet[BitAnd(loop.carry, 31) + 1])
                      ELSE loop.result
  IN Return(res \o StringPrototypeRepeat(PADDING_CHAR, 8 - (Len(res) % 8)))

\* Mutant of encodeToStringImpl: no padding is appended.
encodeToStringImpl_NoPadding(this, bytes, startArg, endArg) ==
  LET alphabet   == this.alphabet
      length     == Len(bytes)
      startIndex == StartIndexOf(startArg, length)
      endIndex   == EndIndexOf(endArg, length)
      loop       == encodeToStringLoop(alphabet, bytes, startIndex, endIndex, 3, 0, <<>>)
  IN Return(IF loop.shift # 3
              THEN Append(loop.result, alphabet[BitAnd(loop.carry, 31) + 1])
              ELSE loop.result)

\* this[encodeToStringSymbol](input, start, end), lines 224-261
encodeToStringImpl(this, bytes, startArg, endArg) ==
  LET alphabet   == this.alphabet
      length     == Len(bytes)
      startIndex == StartIndexOf(startArg, length)
      endIndex   == EndIndexOf(endArg, length)
      loop       == encodeToStringLoop(alphabet, bytes, startIndex, endIndex, 3, 0, <<>>)
      res        == IF loop.shift # 3
                      THEN Append(loop.result, alphabet[BitAnd(loop.carry, 31) + 1])
                      ELSE loop.result
      extraBytes == Len(res) % 8
  IN Return(IF extraBytes # 0
              THEN res \o StringPrototypeRepeat(PADDING_CHAR, 8 - extraBytes)
              ELSE res)

\* The loop of lines 345-357: the array, the next index, shift and carry.
RECURSIVE encodeLoop(_, _, _, _, _, _, _, _)
encodeLoop(baseMap, bytes, i, endIndex, shift, carry, index, res) ==
  IF i >= endIndex THEN [result |-> res, shift |-> shift, carry |-> carry, index |-> index]
  ELSE LET byte   == bytes[i + 1]
           number == BitOr(carry, ShiftRight(byte, shift))
           res1   == Uint8Store(res, index, baseMap[BitAnd(number, 31) + 1])
           second == shift > BITS_PER_CHAR
           shift1 == IF second THEN shift - BITS_PER_CHAR ELSE shift
           res2   == IF second
                       THEN Uint8Store(res1, index + 1,
                                       baseMap[BitAnd(ShiftRight(byte, shift1), 31) + 1])
                       ELSE res1
           index2 == IF second THEN index + 2 ELSE index + 1
           shift2 == BITS_PER_CHAR - shift1
       IN encodeLoop(baseMap, bytes, i + 1, endIndex,
                     8 - shift2, ShiftLeft(byte, shift2), index2, res2)

\* encode(input, start, end), lines 324-362, on a Uint8Array
encode(this, bytes, startArg, endArg) ==
  LET baseMap    == this.baseMap
      length     == Len(bytes)
      startIndex == StartIndexOf(startArg, length)
      endIndex   == EndIndexOf(endArg, length)
      newLength  == MathMax(0, endIndex - startIndex)
      array      == NewUint8Array((newLength * 8 + 4) \div BITS_PER_CHAR)
      loop       == encodeLoop(baseMap, bytes, startIndex, endIndex, 3, 0, 0, array)
  IN Return(IF loop.shift # 3
              THEN Uint8Store(loop.result, loop.index, baseMap[BitAnd(loop.carry, 31) + 1])
              ELSE loop.result)

\* encodeToString(input, start, end), lines 411-416, on a Uint8Array
encodeToString(this, bytes, startArg, endArg) ==
  encodeToStringImpl(this, bytes, startArg, endArg)

\* Mutant of decodeStep: a symbol that straddles two bytes leaves no carry.
decodeStep_StraddleLosesCarry(charIndex, shift, carry, index, res) ==
  LET number == BitAnd(charIndex, 255)
      shift1 == shift - BITS_PER_CHAR
  IN IF shift1 > 0
       THEN [result |-> res, index |-> index, shift |-> shift1,
             carry |-> BitOr(carry, ShiftLeft(number, shift1))]
     ELSE IF shift1 < 0
       THEN [result |-> Uint8Store(res, index, BitOr(carry, ShiftRight(number, -shift1))),
             index |-> index + 1, shift |-> shift1 + 8, carry |-> 0]
     ELSE [result |-> Uint8Store(res, index, BitOr(carry, number)),
           index |-> index + 1, shift |-> 8, carry |-> 0]

\* One symbol of value charIndex enters the decoder, lines 296-308 and
\* 391-403 (the same text): the array, the next index, shift and carry after.
decodeStep(charIndex, shift, carry, index, res) ==
  LET number == BitAnd(charIndex, 255)
      shift1 == shift - BITS_PER_CHAR
  IN IF shift1 > 0
       THEN [result |-> res, index |-> index, shift |-> shift1,
             carry |-> BitOr(carry, ShiftLeft(number, shift1))]
     ELSE IF shift1 < 0
       THEN [result |-> Uint8Store(res, index, BitOr(carry, ShiftRight(number, -shift1))),
             index |-> index + 1, shift |-> shift1 + 8,
             carry |-> BitAnd(ShiftLeft(number, shift1 + 8), 255)]
     ELSE [result |-> Uint8Store(res, index, BitOr(carry, number)),
           index |-> index + 1, shift |-> 8, carry |-> 0]

\* Lines 310-312 and 405-407: the store of the partial byte after the loop.
decodeFinish(st) ==
  IF st.shift # 8 /\ st.carry # 0
    THEN Uint8Store(st.result, st.index, st.carry)
    ELSE st.result

\* Mutant of decodeFromStringLoop: a padding character among the symbols is
\* passed over.
RECURSIVE decodeFromStringLoop_SkipsPadding(_, _, _, _, _)
decodeFromStringLoop_SkipsPadding(alphabetLookup, string, i, extraLength, st) ==
  IF i >= extraLength THEN Return(decodeFinish(st))
  ELSE LET char == string[i + 1]
       IN IF char = PADDING_CHAR
            THEN decodeFromStringLoop_SkipsPadding(alphabetLookup, string, i + 1, extraLength, st)
          ELSE IF char \notin DOMAIN alphabetLookup
            THEN Throw("SyntaxError", "Invalid character for Base32Hex encoding", char, i)
          ELSE decodeFromStringLoop_SkipsPadding(alphabetLookup, string, i + 1, extraLength,
                 decodeStep(alphabetLookup[char], st.shift, st.carry, st.index, st.result))

\* The loop of lines 290-309 over the characters of a string.
RECURSIVE decodeFromStringLoop(_, _, _, _, _)
decodeFromStringLoop(alphabetLookup, string, i, extraLength, st) ==
  IF i >= extraLength THEN Return(decodeFinish(st))
  ELSE LET char == string[i + 1]
       IN IF char \notin DOMAIN alphabetLookup
            THEN Throw("SyntaxError", "Invalid character for Base32Hex encoding", char, i)
            ELSE decodeFromStringLoop(alphabetLookup, string, i + 1, extraLength,
                   decodeStep(alphabetLookup[char], st.shift, st.carry, st.index, st.result))

\* The scan of lines 280-282 for trailing padding characters.
RECURSIVE paddingScan(_, _, _, _)
paddingScan(string, lastIndex, limit, paddingCount) ==
  IF paddingCount < limit /\ paddingCount < 6
       /\ string[lastIndex - paddingCount + 1] = PADDING_CHAR
    THEN paddingScan(string, lastIndex, limit, paddingCount + 1)
    ELSE paddingCount

\* Mutant of decodeFromStringImpl: trailing padding is stripped whatever the
\* length of the range.
decodeFromStringImpl_AlwaysStrips(this, string, startArg, endArg) ==
  LET length       == Len(string)
      startIndex   == StartIndexOf(startArg, length)
      endIndex     == EndIndexOf(endArg, length)
      newLength    == MathMax(0, endIndex - startIndex)
      paddingCount == paddingScan(string, endIndex - 1, newLength, 0)
      validLength  == newLength - paddingCount
      extraLength  == startIndex + validLength
      array        == NewUint8Array((validLength * BITS_PER_CHAR) \div 8)
  IN decodeFromStringLoop(this.alphabetLookup, string, startIndex, extraLength,
                          [result |-> array, index |-> 0, shift |-> 8, carry |-> 0])

\* this[decodeFromStringSymbol](string, start, end), lines 263-314
decodeFromStringImpl(this, string, startArg, endArg) ==
  LET length       == Len(string)
      startIndex   == StartIndexOf(startArg, length)
      endIndex     == EndIndexOf(endArg, length)
      newLength    == MathMax(0, endIndex - startIndex)
      paddingCount == IF newLength % 8 = 0
                        THEN paddingScan(string, endIndex - 1, newLength, 0)
                        ELSE 0
      validLength  == newLength - paddingCount
      extraLength  == startIndex + validLength
      array        == NewUint8Array((validLength * BITS_PER_CHAR) \div 8)
  IN decodeFromStringLoop(this.alphabetLookup, string, startIndex, extraLength,
                          [result |-> array, index |-> 0, shift |-> 8, carry |-> 0])

\* decodeFromString(input, start, end), lines 418-423, on a string
decodeFromString(this, string, startArg, endArg) ==
  decodeFromStringImpl(this, string, startArg, endArg)

HexDigits ==
  << "0", "1", "2", "3", "4", "5", "6", "7", "8", "9", "a", "b", "c", "d", "e", "f" >>

\* NumberPrototypeToString(n, 16) for n >= 0
RECURSIVE NumberPrototypeToString16(_)
NumberPrototypeToString16(n) ==
  IF n < 16 THEN << HexDigits[n + 1] >>
  ELSE Append(NumberPrototypeToString16(n \div 16), HexDigits[(n % 16) + 1])

\* The loop of lines 385-404 over the bytes of a Uint8Array.
RECURSIVE decodeLoop(_, _, _, _, _)
decodeLoop(baseMapLookup, bytes, i, endIndex, st) ==
  IF i >= endIndex THEN Return(decodeFinish(st))
  ELSE LET charCode == bytes[i + 1]
       IN IF charCode \notin DOMAIN baseMapLookup
            THEN Throw("SyntaxError", "Invalid byte for Base32Hex encoding",
                       NumberPrototypeToString16(charCode), i)
            ELSE decodeLoop(baseMapLookup, bytes, i + 1, endIndex,
                   decodeStep(baseMapLookup[charCode], st.shift, st.carry, st.index, st.result))

\* decode(input, start, end), lines 364-409, on a Uint8Array
decode(this, bytes, startArg, endArg) ==
  LET length     == Len(bytes)
      startIndex == StartIndexOf(startArg, length)
      endIndex   == EndIndexOf(endArg, length)
      newLength  == MathMax(0, endIndex - startIndex)
      array      == NewUint8Array((newLength * BITS_PER_CHAR) \div 8)
  IN decodeLoop(this.baseMapLookup, bytes, startIndex, endIndex,
                [result |-> array, index |-> 0, shift |-> 8, carry |-> 0])

\* The loop of lines 126-131.
RECURSIVE isBase32HexStringLoop(_, _, _)
isBase32HexStringLoop(value, i, validLength) ==
  IF i >= validLength THEN TRUE
  ELSE IF value[i + 1] \notin DOMAIN base32Hex.alphabetLookup THEN FALSE
  ELSE isBase32HexStringLoop(value, i + 1, validLength)

\* Mutant of isBase32HexString: the length is not checked.
isBase32HexString_NoLengthCheck(value) ==
  LET length == Len(value)
  IN isBase32HexStringLoop(value, 0, length - paddingScan(value, length - 1, length, 0))

\* isBase32HexString(value), lines 111-133, on a string
isBase32HexString(value) ==
  LET length == Len(value)
  IN IF length % 8 # 0 THEN FALSE
     ELSE isBase32HexStringLoop(value, 0, length - paddingScan(value, length - 1, length, 0))

----------------------------------------------------------------------------
(* The caller: one call at a time, to completion (section 5 of the design: *)
(* synchronous, single-threaded).                                          *)

Init ==
  /\ codec = base32Hex
  /\ pc = "idle"
  /\ op = "none"
  /\ input = <<>>
  /\ start = Undefined
  /\ end = Undefined
  /\ origin = <<>>
  /\ result = Return(<<>>)

\* A call of operation o with the given arguments has completed with outcome r.
Completed(o, in, s, e, from, r) ==
  /\ pc' = "done"
  /\ op' = o
  /\ input' = in
  /\ start' = s
  /\ end' = e
  /\ origin' = from
  /\ result' = r

\* The caller drops the outcome and is ready for the next call.
Forget ==
  /\ pc = "done"
  /\ pc' = "idle"
  /\ op' = "none"
  /\ input' = <<>>
  /\ start' = Undefined
  /\ end' = Undefined
  /\ origin' = <<>>
  /\ result' = Return(<<>>)
  /\ UNCHANGED codec

\* new Base32Hex(value), value drawn from `values`: on success the caller
\* holds the new instance, on a throw it keeps the one it had.
NewFrom(values) ==
  /\ pc = "idle"
  /\ \E value \in values :
       LET r == Construct(value)
       IN /\ Completed("new", value, Undefined, Undefined, <<>>, r)
          /\ codec' = IF r.kind = "return" THEN r.value ELSE codec

\* isAlphabet(value), value drawn from `values`.
CallIsAlphabetFrom(values) ==
  /\ pc = "idle"
  /\ \E value \in values :
       Completed("isAlphabet", value, Undefined, Undefined, <<>>, Return(isAlphabet(value)))
  /\ UNCHANGED codec

\* encode(bytes, start, end) with arguments drawn from the given sets.
CallEncodeFrom(buffers, starts, ends) ==
  /\ pc = "idle"
  /\ \E bytes \in buffers, s \in starts, e \in ends :
       Completed("encode", bytes, s, e, <<>>, encode(codec, bytes, s, e))
  /\ UNCHANGED codec

\* encodeToString(bytes, start, end) with arguments drawn from the given sets.
CallEncodeToStringFrom(buffers, starts, ends) ==
  /\ pc = "idle"
  /\ \E bytes \in buffers, s \in starts, e \in ends :
       Completed("encodeToString", bytes, s, e, <<>>, encodeToString(codec, bytes, s, e))
  /\ UNCHANGED codec

\* decode(bytes, start, end) with arguments drawn from the given sets.
CallDecodeFrom(buffers, starts, ends) ==
  /\ pc = "idle"
  /\ \E bytes \in buffers, s \in starts, e \in ends :
       Completed("decode", bytes, s, e, <<>>, decode(codec, bytes, s, e))
  /\ UNCHANGED codec

\* decodeFromString(string, start, end) with arguments drawn from the given sets.
CallDecodeFromStringFrom(strings, starts, ends) ==
  /\ pc = "idle"
  /\ \E string \in strings, s \in starts, e \in ends :
       Completed("decodeFromString", string, s, e, <<>>, decodeFromString(codec, string, s, e))
  /\ UNCHANGED codec

\* isBase32HexString(value), value drawn from `strings`.
CallIsBase32HexStringFrom(strings) ==
  /\ pc = "idle"
  /\ \E value \in strings :
       Completed("isBase32HexString", value, Undefined, Undefined, <<>>,
                 Return(isBase32HexString(value)))
  /\ UNCHANGED codec

\* The caller passes what encode returned for a whole buffer to decode.
DecodeEncoded ==
  /\ pc = "done" /\ op = "encode" /\ start = Undefined /\ end = Undefined
  /\ Completed("decode", result.value, Undefined, Undefined, <<input>>,
               decode(codec, result.value, Undefined, Undefined))
  /\ UNCHANGED codec

\* The caller passes what encodeToString returned for a whole buffer to
\* decodeFromString.
DecodeEncodedString ==
  /\ pc = "done" /\ op = "encodeToString" /\ start = Undefined /\ end = Undefined
  /\ Completed("decodeFromString", result.value, Undefined, Undefined, <<input>>,
               decodeFromString(codec, result.value, Undefined, Undefined))
  /\ UNCHANGED codec

\* The caller passes what encodeToString returned to isBase32HexString.
ValidateEncoded ==
  /\ pc = "done" /\ op = "encodeToString"
  /\ Completed("isBase32HexString", result.value, Undefined, Undefined, <<input>>,
               Return(isBase32HexString(result.value)))
  /\ UNCHANGED codec

\* encodeInt(value), value drawn from `values`.
CallEncodeIntFrom(values) ==
  /\ pc = "idle"
  /\ \E value \in values :
       Completed("encodeInt", value, Undefined, Undefined, <<>>, encodeInt(codec, value))
  /\ UNCHANGED codec

\* encodeBigInt(value), value drawn from `values`.
CallEncodeBigIntFrom(values) ==
  /\ pc = "idle"
  /\ \E value \in values :
       Completed("encodeBigInt", value, Undefined, Undefined, <<>>, encodeBigInt(codec, value))
  /\ UNCHANGED codec

\* decodeInt(string), string drawn from `strings`.
CallDecodeIntFrom(strings) ==
  /\ pc = "idle"
  /\ \E string \in strings :
       Completed("decodeInt", string, Undefined, Undefined, <<>>, decodeInt(codec, string))
  /\ UNCHANGED codec

\* decodeBigInt(string), string drawn from `strings`.
CallDecodeBigIntFrom(strings) ==
  /\ pc = "idle"
  /\ \E string \in strings :
       Completed("decodeBigInt", string, Undefined, Undefined, <<>>, decodeBigInt(codec, string))
  /\ UNCHANGED codec

\* The caller passes what encodeInt returned to decodeInt.
DecodeEncodedInt ==
  /\ pc = "done" /\ op = "encodeInt" /\ result.kind = "return"
  /\ Completed("decodeInt", result.value, Undefined, Undefined, <<input>>,
               decodeInt(codec, result.value))
  /\ UNCHANGED codec

\* The caller passes what encodeBigInt returned to decodeBigInt.
DecodeEncodedBigInt ==
  /\ pc = "done" /\ op = "encodeBigInt"
  /\ Completed("decodeBigInt", result.value, Undefined, Undefined, <<input>>,
               decodeBigInt(codec, result.value))
  /\ UNCHANGED codec

----------------------------------------------------------------------------
(* Inputs of the alphabet operations *)

Reversed(s) == [ i \in 1..Len(s) |-> s[Len(s) + 1 - i] ]

Rotated(s, k) == [ i \in 1..Len(s) |-> s[((i - 1 + k) % Len(s)) + 1] ]

Swapped(s, i, j) == [s EXCEPT ![i] = s[j], ![j] = s[i]]

\* Characters a candidate alphabet may hold at an edited position: every
\* legal character and two illegal ones.
EditChars == AlphabetChars \cup { "a", "=" }

\* Positions at which a second edit is made.
EditPositions == { 1, 2, 16, 31, 32 }

\* The largest rotation of the default alphabet among the valid samples.
MaxRotation == 1

ValidAlphabets ==
  { ALPHABET, Reversed(ALPHABET) }
    \cup { Rotated(ALPHABET, k) : k \in 1..MaxRotation }
    \cup { Swapped(ALPHABET, 1, j) : j \in EditPositions }

AlphabetCandidates ==
  ValidAlphabets
    \cup { [a EXCEPT ![p] = c] : a \in { ALPHABET, Reversed(ALPHABET) },
                                  p \in 1..BASE, c \in EditChars }
    \cup { [ALPHABET EXCEPT ![p] = c, ![q] = d] :
             p \in EditPositions, q \in EditPositions, c \in { "a", "0", "V" },
             d \in { "=", "0", "F" } }
    \cup { SubSeq(ALPHABET, 1, k) : k \in 0..(BASE - 1) }
    \cup { ALPHABET \o <<c>> : c \in EditChars }
    \cup { ALPHABET \o ALPHABET }

NewCandidate == NewFrom(AlphabetCandidates)

CallIsAlphabet == CallIsAlphabetFrom(AlphabetCandidates)

NextAlphabet == NewCandidate \/ CallIsAlphabet \/ Forget

SpecAlphabet == Init /\ [][NextAlphabet]_vars

----------------------------------------------------------------------------
(* C7 *)

\* The character at position i (1-based) of v is not legal or repeats an
\* earlier one.
BadAt(v, i) == v[i] \notin AlphabetChars \/ \E j \in 1..(i - 1) : v[j] = v[i]

WellFormedAlphabet(v) == Len(v) = BASE /\ \A i \in 1..BASE : ~BadAt(v, i)

FirstBad(v) == CHOOSE i \in 1..BASE : BadAt(v, i) /\ \A j \in 1..(i - 1) : ~BadAt(v, j)

C7_Outcome ==
  (pc = "done" /\ op = "new") =>
    /\ isAlphabet(input) = WellFormedAlphabet(input)
    /\ (result.kind = "return") = isAlphabet(input)
    /\ result.kind = "return" => codec = result.value /\ codec.alphabet = input
    /\ (result.kind = "throw" /\ Len(input) # BASE) =>
         result.error = "RangeError"
    /\ (result.kind = "throw" /\ Len(input) = BASE) =>
         /\ result.error = "SyntaxError"
         /\ result.index = FirstBad(input) - 1
         /\ result.char = input[FirstBad(input)]
         /\ result.message =
              (IF input[FirstBad(input)] \notin AlphabetChars
                 THEN "Invalid character for the Base32Hex alphabet"
                 ELSE "The character is already in the alphabet")

C7_NoCodecOnFailure ==
  (pc' = "done" /\ op' = "new" /\ result'.kind = "throw") => codec' = codec

\* C7: constructing a codec with a string v succeeds exactly when
\* isAlphabet(v) is true, that is when v has length 32 and its characters
\* are legal and unique; otherwise construction throws and the caller gets
\* no new codec: a RangeError when the length is not 32, else a SyntaxError
\* that names the first index whose character is illegal (invalid-character
\* message) or repeats an earlier one (duplicate message), and the character.
C7_AlphabetValidation == [](C7_Outcome) /\ [][C7_NoCodecOnFailure]_vars

C7_Witness ==
  /\ pc = "done" /\ op = "new" /\ result.kind = "throw"
  /\ result.message = "The character is already in the alphabet"
  /\ result.index > 0
  /\ codec.alphabet # ALPHABET

----------------------------------------------------------------------------
(* Encoding whole buffers and decoding the result back *)

\* The byte values of the short buffers: all zeros, all ones, and the three
\* bytes of the design's test vector (ones in the low, middle and high bits).
ByteValues == { 0, 15, 62, 248, 255 }

\* The byte values of the long buffers.
VectorBytes == { 15, 62, 248 }

\* The longest buffer over ByteValues, and over VectorBytes (six bytes take
\* the encoder's shift through 3, 6, 4, 7, 5, 8 and back to 6).
MaxWideLen == 3

MaxLen == 6

SeqsUpTo(values, n) == UNION { [1..k -> values] : k \in 0..n }

Buffers == SeqsUpTo(ByteValues, MaxWideLen) \cup SeqsUpTo(VectorBytes, MaxLen)

\* The valid alphabets the codec specifications construct instances with.
SampleAlphabets == { Reversed(ALPHABET), Rotated(ALPHABET, 7) }

NewSample == NewFrom(SampleAlphabets)

EncodeBuffer == CallEncodeFrom(Buffers, {Undefined}, {Undefined})

EncodeBufferToString ==
  CallEncodeToStringFrom(Buffers, { Undefined, <<2>> }, { Undefined, <<-1>> })

NextRoundTrip ==
  \/ NewSample
  \/ EncodeBuffer
  \/ EncodeBufferToString
  \/ DecodeEncoded
  \/ DecodeEncodedString
  \/ Forget

SpecRoundTrip == Init /\ [][NextRoundTrip]_vars

----------------------------------------------------------------------------
(* C1 *)

\* C1: for every byte buffer b and every valid alphabet, decode applied to
\* what encode returned for b returns b (same bytes, same length), and
\* decodeFromString applied to what encodeToString returned for b returns b.
C1_RoundTrip ==
  (pc = "done" /\ op \in { "decode", "decodeFromString" } /\ origin # <<>>) =>
    /\ result.kind = "return"
    /\ Len(result.value) = Len(origin[1])
    /\ result.value = origin[1]

C1_Witness ==
  /\ pc = "done" /\ op = "decodeFromString"
  /\ codec.alphabet # ALPHABET
  /\ origin = << << 248, 62, 15, 248 >> >>
  /\ result = Return(origin[1])

----------------------------------------------------------------------------
(* What the claims compare the codec with *)

\* b.slice(start, end) of the host runtime (%TypedArray%.prototype.slice): a
\* negative index counts from the end, each index is clamped into
\* [0, length], and the slice is empty when the start is not before the end.
RelativeIndex(arg, length, default) ==
  IF arg = Undefined THEN default
  ELSE IF arg[1] < 0 THEN (IF length + arg[1] < 0 THEN 0 ELSE length + arg[1])
  ELSE (IF arg[1] > length THEN length ELSE arg[1])

SliceOf(b, startArg, endArg) ==
  SubSeq(b, RelativeIndex(startArg, Len(b), 0) + 1, RelativeIndex(endArg, Len(b), Len(b)))

\* ceil(n * 8 / 5) and 8 * ceil(m / 8)
DataChars(n) == (n * 8 + 4) \div 5

NextMultipleOf8(m) == 8 * ((m + 7) \div 8)

CharsOf(string) == { string[i] : i \in 1..Len(string) }

----------------------------------------------------------------------------
(* C2 *)

\* C2: for a byte buffer of effective length n, encodeToString returns
\* ceil(n*8/5) alphabet characters followed only by "=" characters, of total
\* length 8*ceil(ceil(n*8/5)/8); the padding count is in 0..6 and the total
\* length is a multiple of 8.
C2_EncodedLength ==
  (pc = "done" /\ op = "encodeToString") =>
    LET n     == Len(SliceOf(input, start, end))
        data  == DataChars(n)
        total == NextMultipleOf8(data)
    IN /\ result.kind = "return"
       /\ Len(result.value) = total
       /\ \A i \in 1..data : result.value[i] \in CharsOf(codec.alphabet)
       /\ \A i \in (data + 1)..total : result.value[i] = PADDING_CHAR
       /\ total - data \in 0..6
       /\ Len(result.value) % 8 = 0

C2_Witness ==
  /\ pc = "done" /\ op = "encodeToString"
  /\ Len(input) = 6 /\ start = Undefined /\ end = Undefined
  /\ Len(result.value) = 16
  /\ result.value[10] # PADDING_CHAR
  /\ result.value[11] = PADDING_CHAR

----------------------------------------------------------------------------
(* C9 *)

VectorCall ==
  /\ pc = "done" /\ op = "encodeToString" /\ codec = base32Hex
  /\ input = << 248, 62, 15 >> /\ start = Undefined /\ end = Undefined

\* C9 as stated: with the default alphabet, encodeToString of
\* [0xf8, 0x3e, 0x0f] returns 8 characters, none of them "=".
C9_Original ==
  VectorCall =>
    /\ result.kind = "return"
    /\ Len(result.value) = 8
    /\ PADDING_CHAR \notin CharsOf(result.value)

\* C9, amended: with the default alphabet, encodeToString of
\* [0xf8, 0x3e, 0x0f] returns the 8 characters "V0V0U===": five alphabet
\* characters followed by three "=" characters.
C9_VectorPadded ==
  VectorCall => result = Return(<< "V", "0", "V", "0", "U", "=", "=", "=" >>)

C9_Witness == VectorCall /\ result.kind = "return"

----------------------------------------------------------------------------
(* Encoding a sub-range of a buffer *)

\* The longest buffer encoded by sub-range; the indices run from two below
\* -length to two above length.
MaxSliceLen == 3

SliceBuffers == SeqsUpTo(VectorBytes, MaxSliceLen)

SliceIndices == { Undefined } \cup { <<k>> : k \in (0 - MaxSliceLen - 2)..(MaxSliceLen + 2) }

EncodeRange == CallEncodeFrom(SliceBuffers, SliceIndices, SliceIndices)

NextSlice == NewSample \/ EncodeRange \/ Forget

SpecSlice == Init /\ [][NextSlice]_vars

----------------------------------------------------------------------------
(* C3 *)

\* C3: for every byte buffer b and all integers start and end (absent,
\* negative, in range, out of range), encode(b, start, end) returns, without
\* failing, what encode returns for the whole of b.slice(start, end).
C3_SliceEquivalence ==
  (pc = "done" /\ op = "encode") =>
    /\ result.kind = "return"
    /\ result = encode(codec, SliceOf(input, start, end), Undefined, Undefined)

C3_Witness ==
  /\ pc = "done" /\ op = "encode"
  /\ Len(input) = 3
  /\ start = << -2 >> /\ end = << 5 >>
  /\ Len(result.value) = 4

----------------------------------------------------------------------------
(* The integer codec *)

\* The integers from -MaxInt to MaxInt, and the powers of 32 up to
\* 32^MaxDigits with their neighbours and negations.
MaxInt == 1100

MaxDigits == 5

RECURSIVE Pow32(_)
Pow32(n) == IF n = 0 THEN 1 ELSE BASE * Pow32(n - 1)

Integers32 ==
  (0 - MaxInt)..MaxInt
    \cup { sign * (Pow32(k) + d) : sign \in { -1, 1 }, k \in 1..MaxDigits, d \in { -1, 0, 1 } }
    \cup { NumberMAX_SAFE_INTEGER, NumberMIN_SAFE_INTEGER }

\* Digit strings decoded directly: with and without sign, with a character
\* that is no digit.
MaxDigitString == 3

DigitStrings == SeqsUpTo({ "0", "1", "V", "-", "a" }, MaxDigitString)

EncodeInteger == CallEncodeIntFrom(Integers32)

EncodeBigInteger == CallEncodeBigIntFrom(Integers32)

DecodeDigits == CallDecodeIntFrom(DigitStrings)

DecodeBigDigits == CallDecodeBigIntFrom(DigitStrings)

NextInt ==
  \/ NewSample
  \/ EncodeInteger
  \/ EncodeBigInteger
  \/ DecodeEncodedInt
  \/ DecodeEncodedBigInt
  \/ DecodeDigits
  \/ DecodeBigDigits
  \/ Forget

SpecInt == Init /\ [][NextInt]_vars

----------------------------------------------------------------------------
(* C4 *)

\* C4: on a codec with any valid alphabet, decodeInt applied to what
\* encodeInt returned for a safe integer i returns i, and decodeBigInt
\* applied to what encodeBigInt returned for i returns i; zero encodes to
\* the one-character string of the alphabet's first character, and a
\* negative value to "-" followed by the encoding of its absolute value.
C4_IntegerRoundTrip ==
  /\ (pc = "done" /\ op \in { "decodeInt", "decodeBigInt" } /\ origin # <<>>) =>
       result = Return(origin[1])
  /\ (pc = "done" /\ op = "encodeInt") =>
       /\ result.kind = "return"
       /\ input = 0 => result.value = << codec.alphabet[1] >>
       /\ input < 0 => result.value = << "-" >> \o encodeInt(codec, -input).value
       /\ input > 0 => result.value[1] # "-"
  /\ (pc = "done" /\ op = "encodeBigInt") =>
       /\ result.kind = "return"
       /\ input = 0 => result.value = << codec.alphabet[1] >>
       /\ input < 0 => result.value = << "-" >> \o encodeBigInt(codec, -input).value
       /\ input > 0 => result.value[1] # "-"

C4_Witness ==
  /\ pc = "done" /\ op = "decodeInt"
  /\ codec = base32Hex
  /\ input = << "-", "1", "0" >>
  /\ origin = << -32 >>
  /\ result = Return(-32)

----------------------------------------------------------------------------
(* Strings handed to the decoder and to the validator *)

\* Two digits (values 0 and 21 in the default alphabet), the padding
\* character and a character outside alphabet and padding.
StringChars == { "0", "L", "=", "a" }

\* A string is a head of up to MaxHead arbitrary characters followed by a
\* run of up to MaxTail equal characters, padding or digit.
MaxHead == 3

MaxTail == 8

Strings ==
  { head \o StringPrototypeRepeat(c, k) :
      head \in SeqsUpTo(StringChars, MaxHead), c \in { "=", "L" }, k \in 0..MaxTail }

\* The same strings as buffers of character codes.
SymbolBuffers == { [ i \in 1..Len(string) |-> StringPrototypeCharCodeAt(string[i]) ] : string \in Strings }

----------------------------------------------------------------------------
(* The validator *)

EncodeDefaultToString == CallEncodeToStringFrom(Buffers, {Undefined}, {Undefined})

ValidateString == CallIsBase32HexStringFrom(Strings)

NextValidator ==
  \/ EncodeDefaultToString
  \/ ValidateEncoded
  \/ ValidateString
  \/ Forget

SpecValidator == Init /\ [][NextValidator]_vars

----------------------------------------------------------------------------
(* C5 *)

\* C5: isBase32HexString returns, and never throws; it returns true for
\* every string encodeToString produced with the default alphabet, false
\* for every string whose length is not a multiple of 8, and false for every
\* string with a character outside the default alphabet and "=".
C5_ValidatorCorrect ==
  (pc = "done" /\ op = "isBase32HexString") =>
    /\ result.kind = "return"
    /\ result.value \in BOOLEAN
    /\ (origin # <<>> /\ codec = base32Hex) => result.value = TRUE
    /\ Len(input) % 8 # 0 => result.value = FALSE
    /\ (\E i \in 1..Len(input) : input[i] \notin AlphabetChars \cup { PADDING_CHAR }) =>
         result.value = FALSE

C5_Witness ==
  /\ pc = "done" /\ op = "isBase32HexString"
  /\ origin = << << 248, 62, 15 >> >>
  /\ Len(input) = 8
  /\ result = Return(TRUE)

----------------------------------------------------------------------------
(* The decoder on arbitrary input *)

NewReversed == NewFrom({ Reversed(ALPHABET) })

DecodeString == CallDecodeFromStringFrom(Strings, { Undefined, <<1>> }, { Undefined, <<-1>> })

DecodeSymbols == CallDecodeFrom(SymbolBuffers, {Undefined}, {Undefined})

NextDecode == NewReversed \/ DecodeString \/ DecodeSymbols \/ Forget

SpecDecode == Init /\ [][NextDecode]_vars

\* The characters (or bytes) of the effective range of the last call.
Range == SliceOf(input, start, end)

FullRange == start = Undefined /\ end = Undefined

\* Position (1-based) of the first element of s outside the set `legal`.
FirstOutside(s, legal) ==
  CHOOSE i \in 1..Len(s) : s[i] \notin legal /\ \A j \in 1..(i - 1) : s[j] \in legal

----------------------------------------------------------------------------
(* C6 *)

Illegal(c) == c \notin AlphabetChars \cup { PADDING_CHAR }

DefaultFullDecode ==
  /\ pc = "done" /\ op = "decodeFromString" /\ codec = base32Hex /\ FullRange

\* C6 as stated: with the default alphabet, decoding over the full range a
\* string with an illegal character (outside 0-9A-V and "=") fails with the
\* invalid-symbol error, which names the first illegal character and its
\* index.
C6_Original ==
  (DefaultFullDecode /\ \E i \in 1..Len(input) : Illegal(input[i])) =>
    LET first == FirstOutside(input, AlphabetChars \cup { PADDING_CHAR })
    IN /\ result.kind = "throw"
       /\ result.error = "SyntaxError"
       /\ result.char = input[first]
       /\ result.index = first - 1

\* C6, amended: with the default alphabet, decoding over the full range a
\* string with an illegal character fails with the invalid-symbol error and
\* returns no bytes; the error names the first character of the input that
\* is not one of 0-9A-V, and its index: the first illegal character, unless
\* a "=" stands before it, and then that "=".  The byte variant fails the
\* same way on the first byte that is no character code of 0-9A-V, which it
\* names in hexadecimal.
C6_FirstUnresolved ==
  /\ (DefaultFullDecode /\ \E i \in 1..Len(input) : Illegal(input[i])) =>
       LET illegal == FirstOutside(input, AlphabetChars \cup { PADDING_CHAR })
           padding == { j \in 1..(illegal - 1) : input[j] = PADDING_CHAR }
           first   == IF padding = {} THEN illegal
                      ELSE CHOOSE j \in padding : \A k \in padding : j <= k
       IN /\ result.kind = "throw"
          /\ result.error = "SyntaxError"
          /\ result.message = "Invalid character for Base32Hex encoding"
          /\ result.char = input[first]
          /\ result.index = first - 1
  /\ (pc = "done" /\ op = "decode" /\ codec = base32Hex /\ FullRange
        /\ \E i \in 1..Len(input) : input[i] \notin DOMAIN base32Hex.baseMapLookup) =>
       LET first == FirstOutside(input, DOMAIN base32Hex.baseMapLookup)
       IN /\ result.kind = "throw"
          /\ result.error = "SyntaxError"
          /\ result.message = "Invalid byte for Base32Hex encoding"
          /\ result.char = NumberPrototypeToString16(input[first])
          /\ result.index = first - 1

C6_Witness ==
  /\ DefaultFullDecode
  /\ Len(input) = 8
  /\ input[1] = "0" /\ input[2] = "=" /\ input[3] = "a"
  /\ result.kind = "throw" /\ result.char = "=" /\ result.index = 1

----------------------------------------------------------------------------
(* C8 *)

\* C8 as stated: decodeFromString fails for every input whose effective
\* range length is not a multiple of 8.
C8_Original ==
  (pc = "done" /\ op = "decodeFromString" /\ Len(Range) % 8 # 0) => result.kind = "throw"

\* C8, amended: for an input whose effective range length n is not a
\* multiple of 8, decodeFromString strips no padding: it fails exactly when
\* some character of the range is not a character of the alphabet ("="
\* included), and when every character of the range is a character of the
\* alphabet it returns floor(n*5/8) bytes.
C8_UnpaddedAccepted ==
  (pc = "done" /\ op = "decodeFromString" /\ Len(Range) % 8 # 0) =>
    /\ (result.kind = "throw") = (\E i \in 1..Len(Range) : Range[i] \notin CharsOf(codec.alphabet))
    /\ result.kind = "throw" => result.error = "SyntaxError"
    /\ result.kind = "return" => Len(result.value) = (Len(Range) * 5) \div 8

C8_Witness ==
  /\ pc = "done" /\ op = "decodeFromString"
  /\ start = <<1>> /\ end = Undefined
  /\ Len(input) = 8 /\ Len(Range) = 7
  /\ result.kind = "return" /\ Len(result.value) = 4

----------------------------------------------------------------------------
(* C10 *)

\* The digits of the symbols the last call decoded, when it returned: every
\* element of the range but the padding a string decode stripped.
DecodedDigits ==
  IF op = "decode"
    THEN [ i \in 1..Len(Range) |-> codec.baseMapLookup[Range[i]] ]
    ELSE LET InAlphabet(c) == c \in DOMAIN codec.alphabetLookup
             symbols == SelectSeq(Range, InAlphabet)
         IN [ i \in 1..Len(symbols) |-> codec.alphabetLookup[symbols[i]] ]

\* The bits of the digits that fill no whole byte, as the high bits of a byte.
PartialByte(digits) ==
  LET k    == Len(digits)
      r    == (k * 5) % 8
      tail == IF k = 0 THEN 0
              ELSE IF k = 1 THEN digits[1]
              ELSE digits[k - 1] * 32 + digits[k]
  IN (tail % Pow2(r)) * Pow2(8 - r)

\* C10: in decode and decodeFromString, when the symbols are processed and
\* a nonzero partial byte remains, it is the last byte of the returned
\* buffer, for every input of valid symbols whose count is no multiple of 8.
C10_PartialByteEmitted ==
  (pc = "done" /\ op \in { "decode", "decodeFromString" } /\ result.kind = "return") =>
    LET digits == DecodedDigits
    IN (Len(digits) % 8 # 0 /\ PartialByte(digits) # 0) =>
         /\ Len(result.value) = (Len(digits) * 5) \div 8 + 1
         /\ result.value[Len(result.value)] = PartialByte(digits)

====
